---- MODULE Spec2Model ----
(***************************************************************************)
(* Model of the answer-grading utility: bench/grade.py (question_scorer    *)
(* and its helpers normalize_number_str, split_string, normalize_str) and  *)
(* find_missing.py (the level-2 coverage audit).                           *)
(*                                                                         *)
(* A Python str is a sequence of one-character strings.  A Python float is *)
(* a record: [kind |-> "fin", neg, m, e] for (-1)^neg * m * 10^e with m    *)
(* free of trailing zeros (zero is m = 0, e = 0, neg = FALSE, so that      *)
(* -0.0 == 0.0), [kind |-> "inf", neg], or [kind |-> "nan"].  An uncaught  *)
(* ValueError is the value [kind |-> "ValueError"], which every caller     *)
(* either catches (try/except in the source) or propagates.                *)
(***************************************************************************)
EXTENDS Integers, Sequences, FiniteSets, TLC

\* Longest model answer / ground truth drawn by Init.
MaxLen == 3

----------------------------------------------------------------------------
\* Characters

\* The ASCII part of what re's \s and str.strip() treat as white space.
Whitespace == {" ", "\t", "\n", "\r", "\f"}

\* string.punctuation (its grave accent, which a TLA+ string cannot hold, is
\* left out; no input of the model contains one)
Punctuation ==
    {"!", "\"", "#", "$", "%", "&", "'", "(", ")", "*", "+", ",", "-", ".",
     "/", ":", ";", "<", "=", ">", "?", "@", "[", "\\", "]", "^", "_",
     "{", "|", "}", "~"}

Digits == <<"0", "1", "2", "3", "4", "5", "6", "7", "8", "9">>

UpperCase ==
    <<"A", "B", "C", "D", "E", "F", "G", "H", "I", "J", "K", "L", "M",
      "N", "O", "P", "Q", "R", "S", "T", "U", "V", "W", "X", "Y", "Z">>

LowerCase ==
    <<"a", "b", "c", "d", "e", "f", "g", "h", "i", "j", "k", "l", "m",
      "n", "o", "p", "q", "r", "s", "t", "u", "v", "w", "x", "y", "z">>

DigitSet == {Digits[i] : i \in 1..10}
DigitValues == [c \in DigitSet |-> (CHOOSE i \in 1..10 : Digits[i] = c) - 1]

IsDigit(c) == c \in DigitSet

DigitVal(c) == DigitValues[c]

UpperSet == {UpperCase[i] : i \in 1..26}
ToLower == [c \in UpperSet |-> LowerCase[CHOOSE i \in 1..26 : UpperCase[i] = c]]

\* str.lower() on one character
LowerChar(c) == IF c \in UpperSet THEN ToLower[c] ELSE c

\* str.lower()
Lower(s) == [i \in 1..Len(s) |-> LowerChar(s[i])]

\* s.replace(c, "") for every c of chars
RemoveChars(s, chars) ==
    LET Keep(c) == c \notin chars IN SelectSeq(s, Keep)

\* str.strip(): leading and trailing white space removed
RECURSIVE LStrip(_)
LStrip(s) ==
    IF s # <<>> /\ Head(s) \in Whitespace THEN LStrip(Tail(s)) ELSE s

RECURSIVE RStrip(_)
RStrip(s) ==
    IF s # <<>> /\ s[Len(s)] \in Whitespace
    THEN RStrip(SubSeq(s, 1, Len(s) - 1))
    ELSE s

Strip(s) == RStrip(LStrip(s))

----------------------------------------------------------------------------
\* float(str)

ValueError == [kind |-> "ValueError"]
NaN == [kind |-> "nan"]
Inf(neg) == [kind |-> "inf", neg |-> neg]
PosInf == Inf(FALSE)

\* Largest decimal exponent of a finite binary64 (1.797...e308), the first
\* eight digits of the overflow threshold, and the decimal exponent below
\* which every value rounds to zero (half the least subnormal is 2.47e-324).
MaxExp10 == 308
OverflowLead == 17976932
MinExp10 == -324

RECURSIVE NumDigits(_)
NumDigits(m) == IF m < 10 THEN 1 ELSE 1 + NumDigits(m \div 10)

RECURSIVE Pow10(_)
Pow10(n) == IF n <= 0 THEN 1 ELSE 10 * Pow10(n - 1)

\* (-1)^neg * m * 10^e as a float: the canonical record, with the overflow
\* to infinity and the underflow to zero of the binary64 conversion.  For
\* mantissas of at most 15 digits in the normal range, two decimals are the
\* same binary64 exactly when they are the same number.
RECURSIVE Finite(_, _, _)
Finite(neg, m, e) ==
    IF m = 0 THEN [kind |-> "fin", neg |-> FALSE, m |-> 0, e |-> 0]
    ELSE IF m % 10 = 0 THEN Finite(neg, m \div 10, e + 1)
    ELSE LET k == NumDigits(m)
             top == e + k - 1
         IN  IF \/ top > MaxExp10
                \/ top = MaxExp10 /\ k <= 8 /\ m * Pow10(8 - k) >= OverflowLead
             THEN Inf(neg)
             ELSE IF top < MinExp10
             THEN [kind |-> "fin", neg |-> FALSE, m |-> 0, e |-> 0]
             ELSE [kind |-> "fin", neg |-> neg, m |-> m, e |-> e]

\* One step of the scanner for the decimal grammar float() accepts:
\*   digitpart ["." [digitpart]] [exponent] | "." digitpart [exponent]
\*   digitpart ::= digit (["_"] digit)*     exponent ::= (e|E) [sign] digitpart
\* st is the scanner state; m the digits read so far as an integer; fd the
\* count of fraction digits; xneg, x the exponent's sign and digits.
ScanStep(a, c) ==
    CASE a.st \in {"start", "int", "int_"} /\ IsDigit(c) ->
            [a EXCEPT !.st = "int", !.m = 10 * a.m + DigitVal(c)]
      [] a.st = "int" /\ c = "_" -> [a EXCEPT !.st = "int_"]
      [] a.st = "start" /\ c = "." -> [a EXCEPT !.st = "dot"]
      [] a.st = "int" /\ c = "." -> [a EXCEPT !.st = "frac0"]
      [] a.st \in {"dot", "frac0", "frac", "frac_"} /\ IsDigit(c) ->
            [a EXCEPT !.st = "frac", !.m = 10 * a.m + DigitVal(c),
                      !.fd = a.fd + 1]
      [] a.st = "frac" /\ c = "_" -> [a EXCEPT !.st = "frac_"]
      [] a.st \in {"int", "frac0", "frac"} /\ c \in {"e", "E"} ->
            [a EXCEPT !.st = "e"]
      [] a.st = "e" /\ c \in {"+", "-"} ->
            [a EXCEPT !.st = "esign", !.xneg = (c = "-")]
      [] a.st \in {"e", "esign", "exp", "exp_"} /\ IsDigit(c) ->
            [a EXCEPT !.st = "exp", !.x = 10 * a.x + DigitVal(c)]
      [] a.st = "exp" /\ c = "_" -> [a EXCEPT !.st = "exp_"]
      [] OTHER -> [a EXCEPT !.st = "err"]

RECURSIVE Scan(_, _)
Scan(a, s) == IF s = <<>> THEN a ELSE Scan(ScanStep(a, Head(s)), Tail(s))

ScanStart == [st |-> "start", m |-> 0, fd |-> 0, xneg |-> FALSE, x |-> 0]

\* float(s) for a str s: white space stripped, optional sign, then
\* inf / infinity / nan in any case, or a decimal number.
ParseFloat(s) ==
    LET t    == Strip(s)
        sgn  == t # <<>> /\ Head(t) \in {"+", "-"}
        neg  == t # <<>> /\ Head(t) = "-"
        body == IF sgn THEN Tail(t) ELSE t
        low  == Lower(body)
        a    == Scan(ScanStart, body)
    IN  IF low \in {<<"i", "n", "f">>,
                    <<"i", "n", "f", "i", "n", "i", "t", "y">>}
        THEN Inf(neg)
        ELSE IF low = <<"n", "a", "n">> THEN NaN
        ELSE IF a.st \in {"int", "frac0", "frac", "exp"}
        THEN Finite(neg, a.m, (IF a.xneg THEN 0 - a.x ELSE a.x) - a.fd)
        ELSE ValueError

\* The == of two floats: NaN equals nothing, -0.0 equals 0.0.
FloatEq(a, b) == a.kind \in {"fin", "inf"} /\ a = b

----------------------------------------------------------------------------
\* bench/grade.py

\* A model answer that is absent (Python's None), and the text put in its place.
None == <<"<None>">>
NoneText == <<"N", "o", "n", "e">>

\* As normalize_number_str, with "%" left in the string.
normalize_number_str_keeps_percent(number_str) ==
    LET f == ParseFloat(RemoveChars(number_str, {"$", ","}))
    IN  IF f = ValueError THEN PosInf ELSE f

\* As normalize_number_str, without the try/except around float().
normalize_number_str_uncaught(number_str) ==
    ParseFloat(RemoveChars(number_str, {"$", "%", ","}))

\* As normalize_number_str, with "." stripped as well.
normalize_number_str_strips_point(number_str) ==
    LET f == ParseFloat(RemoveChars(number_str, {"$", "%", ",", "."}))
    IN  IF f = ValueError THEN PosInf ELSE f

\* A float; the ValueError of float() is caught and becomes infinity.
normalize_number_str(number_str) ==
    LET stripped == RemoveChars(number_str, {"$", "%", ","})
        f == ParseFloat(stripped)
    IN  IF f = ValueError THEN PosInf ELSE f

\* re.split("[,;]", s): every delimiter splits, so n delimiters give n + 1
\* elements, empty ones included.
RECURSIVE SplitFrom(_, _, _)
SplitFrom(s, i, cur) ==
    IF i > Len(s) THEN <<cur>>
    ELSE IF s[i] \in {",", ";"} THEN <<cur>> \o SplitFrom(s, i + 1, <<>>)
    ELSE SplitFrom(s, i + 1, Append(cur, s[i]))

\* As split_string, with the empty elements dropped.
split_string_drops_empty(s) ==
    LET NonEmpty(e) == e # <<>> IN SelectSeq(SplitFrom(s, 1, <<>>), NonEmpty)

split_string(s) == SplitFrom(s, 1, <<>>)

\* s with the first character that is in chars removed: re.sub(.., count=1)
RECURSIVE RemoveFirst(_, _)
RemoveFirst(s, chars) ==
    IF s = <<>> THEN s
    ELSE IF Head(s) \in chars THEN Tail(s)
    ELSE <<Head(s)>> \o RemoveFirst(Tail(s), chars)

\* As normalize_str, with only the first white-space character removed.
normalize_str_first_space(input_str, remove_punct) ==
    LET no_spaces == RemoveFirst(input_str, Whitespace)
    IN  IF remove_punct
        THEN RemoveChars(Lower(no_spaces), Punctuation)
        ELSE Lower(no_spaces)

\* As normalize_str, without the lowercasing.
normalize_str_keeps_case(input_str, remove_punct) ==
    LET no_spaces == RemoveChars(input_str, Whitespace)
    IN  IF remove_punct
        THEN RemoveChars(no_spaces, Punctuation)
        ELSE no_spaces

normalize_str(input_str, remove_punct) ==
    LET no_spaces == RemoveChars(input_str, Whitespace)
    IN  IF remove_punct
        THEN RemoveChars(Lower(no_spaces), Punctuation)
        ELSE Lower(no_spaces)

\* The nested is_float: the ValueError of float() is caught.
is_float(element) == ParseFloat(element) # ValueError

\* `return a == b` for two floats either of which may be a propagating
\* ValueError: the outcome [pc, result].
ReturnEq(a, b) ==
    IF a = ValueError \/ b = ValueError
    THEN [pc |-> "raise", result |-> FALSE]
    ELSE [pc |-> "return", result |-> FloatEq(a, b)]

\* As CompareElem, with the punctuation of text elements removed.
CompareElem_removes_punct(ma_elem, gt_elem) ==
    IF is_float(gt_elem)
    THEN ReturnEq(normalize_number_str(ma_elem), ParseFloat(gt_elem))
    ELSE [pc |-> "return",
          result |-> normalize_str(ma_elem, TRUE) = normalize_str(gt_elem, TRUE)]

\* One position of the list branch's loop: the comparison appended for
\* (ma_elem, gt_elem), or a propagating ValueError.
CompareElem(ma_elem, gt_elem) ==
    IF is_float(gt_elem)
    THEN ReturnEq(normalize_number_str(ma_elem), ParseFloat(gt_elem))
    ELSE [pc |-> "return",
          result |-> normalize_str(ma_elem, FALSE) = normalize_str(gt_elem, FALSE)]

\* The three branches of question_scorer.  Each gives the outcome of the
\* call: pc is "return" or "raise", result the boolean returned, branch the
\* branch the diagnostic names, warned whether the length warning was issued.
NumberBranch(ma, gt) ==
    ReturnEq(normalize_number_str(ma), ParseFloat(gt))
        @@ [branch |-> "number", warned |-> FALSE]

ListBranch(ma, gt) ==
    LET gt_elems == split_string(gt)
        ma_elems == split_string(ma)
    IN  IF Len(gt_elems) # Len(ma_elems)
        THEN [pc |-> "return", result |-> FALSE,
              branch |-> "list", warned |-> TRUE]
        ELSE LET comparisons ==
                     [i \in 1..Len(gt_elems) |->
                         CompareElem(ma_elems[i], gt_elems[i])]
             IN  IF \E i \in 1..Len(gt_elems) : comparisons[i].pc = "raise"
                 THEN [pc |-> "raise", result |-> FALSE,
                       branch |-> "list", warned |-> FALSE]
                 ELSE [pc |-> "return",
                       result |-> \A i \in 1..Len(gt_elems) :
                                      comparisons[i].result,
                       branch |-> "list", warned |-> FALSE]

StringBranch(ma, gt) ==
    [pc |-> "return",
     result |-> normalize_str(ma, TRUE) = normalize_str(gt, TRUE),
     branch |-> "string", warned |-> FALSE]

\* any(char in s for char in [",", ";"])
HasDelimiter(s) == \E i \in 1..Len(s) : s[i] \in {",", ";"}

\* As question_scorer, with the shape read off the model answer.
question_scorer_by_answer(model_answer0, ground_truth0) ==
    LET ma == IF model_answer0 = None THEN NoneText ELSE model_answer0
        gt == ground_truth0
    IN  IF is_float(ma) THEN NumberBranch(ma, gt)
        ELSE IF HasDelimiter(ma) THEN ListBranch(ma, gt)
        ELSE StringBranch(ma, gt)

\* As question_scorer, with an absent answer replaced by the empty string.
question_scorer_none_empty(model_answer0, ground_truth0) ==
    LET ma == IF model_answer0 = None THEN <<>> ELSE model_answer0
        gt == ground_truth0
    IN  IF is_float(gt) THEN NumberBranch(ma, gt)
        ELSE IF HasDelimiter(gt) THEN ListBranch(ma, gt)
        ELSE StringBranch(ma, gt)

\* The outcome of question_scorer(model_answer, ground_truth).
question_scorer(model_answer0, ground_truth0) ==
    LET ma == IF model_answer0 = None THEN NoneText ELSE model_answer0
        gt == ground_truth0
    IN  IF is_float(gt) THEN NumberBranch(ma, gt)
        ELSE IF HasDelimiter(gt) THEN ListBranch(ma, gt)
        ELSE StringBranch(ma, gt)

----------------------------------------------------------------------------
\* One call of question_scorer

VARIABLES
    model_answer,   \* question_scorer's first argument: a str, or None
    ground_truth,   \* question_scorer's second argument: a str
    pc,             \* "call" before the call, then "return" or "raise"
    result,         \* the boolean returned
    branch,         \* the branch the diagnostic names: number, list, string
    warned,         \* whether the list-length warning was issued
    input_str,      \* normalize_str's first argument
    remove_punct,   \* normalize_str's second argument
    normalized,     \* the str normalize_str returned
    csv_rows,       \* the report: the rows csv.DictReader yields
    jsonl_lines,    \* the metadata: the lines of the JSONL file
    csv_level2_ids, \* find_missing_level2's local
    line_no,        \* the line the loop of find_missing_level2 is at
    missing         \* find_missing_level2's result list

scorer_vars == <<model_answer, ground_truth, result, branch, warned>>
normalize_vars == <<input_str, remove_punct, normalized>>
audit_vars == <<csv_rows, jsonl_lines, csv_level2_ids, line_no, missing>>
vars == <<pc, scorer_vars, normalize_vars, audit_vars>>

\* The strings of length at most n over the characters of alpha.
Strs(alpha, n) == UNION {[1..k -> alpha] : k \in 0..n}

\* The inputs: each alphabet gathers the characters one comparison rule is
\* about, and both arguments of a call are drawn from the same alphabet.
Alphabets ==
    { {"1", ".", "$"},          \* currency sign, decimal point
      {"1", "%", ","},          \* percent sign and thousands separator
      {"1", "0", "."},          \* leading and trailing zeros
      {"1", "e", "0"},          \* exponents
      {"1", "-", "0"},          \* signs, negative zero
      {"1", "_", " "},          \* digit grouping, white space around a number
      {"i", "n", "f"},          \* infinity
      {"n", "a", ","},          \* NaN, alone and as a list element
      {"1", ",", "a"},          \* lists of numbers and text
      {"1", ";", "$"},          \* the other delimiter, numeric elements
      {"a", "A", ","},          \* letter case in list elements
      {"a", "-", ";"},          \* punctuation in lists and in plain text
      {"a", "A", " "},          \* letter case and white space in plain text
      {"a", "!", "b"} }         \* punctuation in plain text

\* Pairs <<model answer, ground truth>> longer than MaxLen: formatted
\* numbers, lists of numbers and text, and the ground truths an absent
\* answer is compared with.
Examples ==
    { <<<<"$", "1", ",", "2", "3", "4", ".", "5", "0">>,
        <<"1", "2", "3", "4", ".", "5">>>>,
      <<<<"3", ".", "1", "4", "1", "5", "9">>,
        <<"3", ".", "1", "4", "1", "6">>>>,
      <<<<"b", ",", " ", "a">>,
        <<"a", ",", " ", "b">>>>,
      <<<<"a", ",", " ", "b", ",", " ", "c">>,
        <<"a", ",", " ", "b">>>>,
      <<<<"3", ",", " ", "r", "e", "d", " ", "f", "o", "x">>,
        <<"3", ".", "0", ",", " ", "R", "e", "d", " ", "F", "o", "x">>>>,
      <<<<"S", "e", "a", "-", "G", "u", "l", "l", "!">>,
        <<"s", "e", "a", " ", "g", "u", "l", "l">>>>,
      <<<<"p", "a", "r", "i", "s">>,
        <<"p", "a", "r", "i", "s">>>>,
      <<None,
        <<"4", "2">>>>,
      <<None,
        NoneText>>,
      <<None,
        <<"n", ".", "O", "n", "e">>>>,
      <<None,
        <<"N", "o", "n", "e", ",">>>>,
      <<None,
        <<"+", "I", "n", "f">>>>,
      <<NoneText,
        <<"-", "i", "n", "f">>>>,
      <<<<"n", "a", "n", ",", "1">>,
        <<"N", "a", "N", ",", "1">>>> }

ScorerIdle ==
    /\ model_answer = <<>>
    /\ ground_truth = <<>>
    /\ result = FALSE
    /\ branch = "none"
    /\ warned = FALSE

NormalizeIdle ==
    /\ input_str = <<>>
    /\ remove_punct = FALSE
    /\ normalized = <<>>

AuditIdle ==
    /\ csv_rows = <<>>
    /\ jsonl_lines = <<>>
    /\ csv_level2_ids = {}
    /\ line_no = 0
    /\ missing = <<>>

Init ==
    /\ \/ \E alpha \in Alphabets :
             /\ model_answer \in Strs(alpha, MaxLen) \cup {None}
             /\ ground_truth \in Strs(alpha, MaxLen)
       \/ \E example \in Examples :
             /\ model_answer = example[1]
             /\ ground_truth = example[2]
    /\ pc = "call"
    /\ result = FALSE
    /\ branch = "none"
    /\ warned = FALSE
    /\ NormalizeIdle
    /\ AuditIdle

QuestionScorer ==
    /\ pc = "call"
    /\ LET r == question_scorer(model_answer, ground_truth)
       IN  /\ pc' = r.pc
           /\ result' = r.result
           /\ branch' = r.branch
           /\ warned' = r.warned
    /\ UNCHANGED <<model_answer, ground_truth, normalize_vars, audit_vars>>

Next == QuestionScorer

Spec == Init /\ [][Next]_vars

----------------------------------------------------------------------------
\* One call of normalize_str

InitNormalize ==
    /\ \E alpha \in Alphabets : input_str \in Strs(alpha, MaxLen)
    /\ remove_punct \in BOOLEAN
    /\ normalized = <<>>
    /\ pc = "call"
    /\ ScorerIdle
    /\ AuditIdle

NormalizeStr ==
    /\ pc = "call"
    /\ normalized' = normalize_str(input_str, remove_punct)
    /\ pc' = "return"
    /\ UNCHANGED <<input_str, remove_punct, scorer_vars, audit_vars>>

NextNormalize == NormalizeStr

SpecNormalize == InitNormalize /\ [][NextNormalize]_vars

----------------------------------------------------------------------------
\* find_missing.py

\* Most rows of the report and most lines of the metadata drawn by InitAudit.
MaxRows == 2
MaxLines == 2

\* A CSV row is [task_id, level], both strs; a row of a file with no level
\* column has level = NoColumn.
NoColumn == <<"<no column>">>

\* A JSON value: a key that is not there, null, an integer, or a string.
NoKey == [t |-> "nokey"]
JsonNull == [t |-> "null"]
JsonInt(n) == [t |-> "int", v |-> n]
JsonStr(str) == [t |-> "str", v |-> str]

\* A line of the JSONL file: blank, or an object [task_id, Level, level].
BlankLine == [t |-> "blank"]
ObjLine(obj) == [t |-> "obj", obj |-> obj]

\* dict.get(key, default), given the value at key
DictGet(value, default) == IF value = NoKey THEN default ELSE value

\* str(n) for an int n >= 0
RECURSIVE IntToStr(_)
IntToStr(n) ==
    IF n < 10 THEN <<Digits[n + 1]>>
    ELSE Append(IntToStr(n \div 10), Digits[(n % 10) + 1])

\* str(v) for a JSON integer or string
PyStr(value) == IF value.t = "int" THEN IntToStr(value.v) ELSE value.v

load_level2_ids_from_csv(rows) ==
    { Strip(rows[i].task_id) :
        i \in { j \in 1..Len(rows) :
                  Strip(IF rows[j].level = NoColumn THEN <<>> ELSE rows[j].level)
                      = <<"2">> } }

\* The body of find_missing_level2's loop for one line: the list missing
\* after it.
ProcessedLine(line, ids, missing_so_far) ==
    IF line.t = "blank" THEN missing_so_far
    ELSE LET obj == line.obj
             level_value == DictGet(obj.Level, DictGet(obj.level, JsonNull))
             tid == Strip(obj.task_id)
         IN  IF level_value = JsonNull THEN missing_so_far
             ELSE IF Strip(PyStr(level_value)) # <<"2">> THEN missing_so_far
             ELSE IF tid \notin ids THEN Append(missing_so_far, tid)
             ELSE missing_so_far

TaskIds == {<<"A">>, <<"B">>, <<"A", " ">>}
CsvLevels == {<<"2">>, <<"1">>, <<" ", "2">>}
JsonLevels == {NoKey, JsonNull, JsonInt(2), JsonInt(1), JsonStr(<<"2", " ">>)}
JsonLowerLevels == {NoKey, JsonInt(2)}

CsvRows == [task_id : TaskIds, level : CsvLevels]
JsonlLines ==
    {BlankLine} \cup
    {ObjLine(o) : o \in [task_id : TaskIds, Level : JsonLevels,
                         level : JsonLowerLevels]}

SeqsUpTo(S, n) == UNION {[1..k -> S] : k \in 0..n}

InitAudit ==
    /\ csv_rows \in SeqsUpTo(CsvRows, MaxRows)
    /\ jsonl_lines \in SeqsUpTo(JsonlLines, MaxLines)
    /\ csv_level2_ids = {}
    /\ line_no = 0
    /\ missing = <<>>
    /\ pc = "call"
    /\ ScorerIdle
    /\ NormalizeIdle

\* find_missing_level2, up to its loop
LoadCsv ==
    /\ pc = "call"
    /\ csv_level2_ids' = load_level2_ids_from_csv(csv_rows)
    /\ missing' = <<>>
    /\ line_no' = 1
    /\ pc' = "loop"
    /\ UNCHANGED <<csv_rows, jsonl_lines, scorer_vars, normalize_vars>>

\* one iteration of the loop over the lines
ProcessLine ==
    /\ pc = "loop"
    /\ line_no <= Len(jsonl_lines)
    /\ missing' = ProcessedLine(jsonl_lines[line_no], csv_level2_ids, missing)
    /\ line_no' = line_no + 1
    /\ UNCHANGED <<pc, csv_rows, jsonl_lines, csv_level2_ids,
                   scorer_vars, normalize_vars>>

\* return missing
ReturnMissing ==
    /\ pc = "loop"
    /\ line_no > Len(jsonl_lines)
    /\ pc' = "return"
    /\ UNCHANGED <<audit_vars, scorer_vars, normalize_vars>>

NextAudit == LoadCsv \/ ProcessLine \/ ReturnMissing

SpecAudit == InitAudit /\ [][NextAudit]_vars

----------------------------------------------------------------------------
\* Properties of question_scorer (specification Spec)

\* The model answer the comparison works on.
Answer == IF model_answer = None THEN NoneText ELSE model_answer

Returned == pc # "call"

GtIsNumber == ParseFloat(ground_truth) # ValueError
GtIsList == ~GtIsNumber /\ HasDelimiter(ground_truth)
GtIsString == ~GtIsNumber /\ ~HasDelimiter(ground_truth)

\* The value of a model answer or of one of its elements: "$", "%" and ","
\* removed, then parsed, positive infinity if that fails.
Unparseable(str) == ParseFloat(RemoveChars(str, {"$", "%", ","})) = ValueError
ValueOf(str) ==
    IF Unparseable(str) THEN PosInf
    ELSE ParseFloat(RemoveChars(str, {"$", "%", ","}))

NumDelimiters(str) == Cardinality({i \in 1..Len(str) : str[i] \in {",", ";"}})

\* White space removed and lowercased; punctuation kept.
Folded(str) == RemoveChars(Lower(str), Whitespace)
\* Punctuation removed as well.
FoldedNoPunct(str) == RemoveChars(Folded(str), Punctuation)

\* C1: every call returns a boolean and none raises, whatever the branch,
\* also when the model answer does not parse as a number and when the two
\* lists differ in length.
C1_Total == Returned => pc = "return" /\ result \in BOOLEAN

\* C1 witness: a call on the number branch whose model answer did not parse.
C1_Witness ==
    /\ pc = "return"
    /\ branch = "number"
    /\ Unparseable(Answer)

\* C2: the branch taken depends on the ground truth alone: number if it
\* parses as a float, else list if it holds "," or ";", else string; a
\* ground truth that parses as a float is never treated as a list.
C2_BranchByGroundTruth ==
    Returned =>
        /\ branch = IF GtIsNumber THEN "number"
                    ELSE IF HasDelimiter(ground_truth) THEN "list"
                    ELSE "string"
        /\ GtIsNumber => branch # "list"

\* C2 witness: a list ground truth scored against an answer that is a number.
C2_Witness ==
    /\ pc = "return"
    /\ branch = "list"
    /\ model_answer # None
    /\ is_float(model_answer)

\* C3: on a numeric ground truth the result is true exactly when the value
\* of the model answer ("$", "%", "," removed, infinity if unparseable)
\* equals the ground truth's value; an unparseable answer is false against
\* every finite ground truth.
C3_Numeric ==
    Returned /\ GtIsNumber =>
        /\ pc = "return"
        /\ result = FloatEq(ValueOf(Answer), ParseFloat(ground_truth))
        /\ Unparseable(Answer) /\ ParseFloat(ground_truth).kind = "fin"
               => result = FALSE

\* C3 witness: a formatted answer ("$", "%" or "," in it) matched a number.
C3_Witness ==
    /\ pc = "return"
    /\ GtIsNumber
    /\ result = TRUE
    /\ \E i \in 1..Len(Answer) : Answer[i] \in {"$", "%", ","}

\* C4: on a list ground truth each side splits into its number of
\* delimiters plus one elements, and the result is false whenever the two
\* counts differ.
C4_ListLength ==
    Returned /\ GtIsList =>
        /\ Len(split_string(ground_truth)) = NumDelimiters(ground_truth) + 1
        /\ Len(split_string(Answer)) = NumDelimiters(Answer) + 1
        /\ NumDelimiters(ground_truth) # NumDelimiters(Answer)
               => pc = "return" /\ result = FALSE

\* C4 witness: lists of different lengths, the ground truth with an empty
\* element between consecutive delimiters.
C4_Witness ==
    /\ pc = "return"
    /\ GtIsList
    /\ NumDelimiters(ground_truth) # NumDelimiters(Answer)
    /\ \E i \in 1..(Len(ground_truth) - 1) :
           /\ ground_truth[i] \in {",", ";"}
           /\ ground_truth[i + 1] \in {",", ";"}
    /\ model_answer # None
    /\ HasDelimiter(model_answer)

\* Whether model element ma_elem matches ground-truth element gt_elem.
ElemMatches(ma_elem, gt_elem) ==
    IF ParseFloat(gt_elem) # ValueError
    THEN FloatEq(ValueOf(ma_elem), ParseFloat(gt_elem))
    ELSE Folded(ma_elem) = Folded(gt_elem)

\* C5: on a list ground truth with as many elements as the model answer,
\* the result is true exactly when every position matches: numerically
\* where the ground-truth element is a float, else as text with white space
\* and case ignored and punctuation kept.
C5_ListPairwise ==
    Returned /\ GtIsList
             /\ NumDelimiters(ground_truth) = NumDelimiters(Answer) =>
        /\ pc = "return"
        /\ result = \A i \in 1..(NumDelimiters(ground_truth) + 1) :
                        ElemMatches(split_string(Answer)[i],
                                    split_string(ground_truth)[i])

\* C5 witness: a list matched whose numeric element is written differently
\* in the model answer.
C5_Witness ==
    /\ pc = "return"
    /\ GtIsList
    /\ result = TRUE
    /\ NumDelimiters(ground_truth) = NumDelimiters(Answer)
    /\ \E i \in 1..(NumDelimiters(ground_truth) + 1) :
           /\ is_float(split_string(ground_truth)[i])
           /\ split_string(Answer)[i] # split_string(ground_truth)[i]

\* C6: on a plain-string ground truth the result is true exactly when the
\* two sides are identical once white space and punctuation are removed and
\* letters lowercased.
C6_String ==
    Returned /\ GtIsString =>
        /\ pc = "return"
        /\ result = (FoldedNoPunct(Answer) = FoldedNoPunct(ground_truth))

\* C6 witness: an answer holding a "," or ";" matched a plain string other
\* than itself.
C6_Witness ==
    /\ pc = "return"
    /\ GtIsString
    /\ result = TRUE
    /\ FoldedNoPunct(ground_truth) # <<>>
    /\ \E i \in 1..Len(Answer) : Answer[i] \in {",", ";"}

\* The ground truths an absent answer matches: positive infinity, and the
\* plain strings that fold to "none".
MatchesNoneText ==
    \/ ParseFloat(ground_truth) = PosInf
    \/ GtIsString /\ FoldedNoPunct(ground_truth) = <<"n", "o", "n", "e">>

\* C7: an absent model answer is scored as the text "None": the outcome is
\* that of question_scorer("None", g), which is false for every ground
\* truth but positive infinity and the spellings of "none" (so for every
\* finite number, "42" among them).
C7_Absent ==
    Returned /\ model_answer = None =>
        /\ LET r == question_scorer(NoneText, ground_truth)
           IN  pc = r.pc /\ result = r.result /\ branch = r.branch
        /\ result = MatchesNoneText

\* C7 witness: an absent answer scored false against a finite number.
C7_Witness ==
    /\ pc = "return"
    /\ model_answer = None
    /\ ParseFloat(ground_truth).kind = "fin"
    /\ result = FALSE

\* No NaN in the ground truth: neither its value nor a list element's.
NoNaN ==
    /\ ParseFloat(ground_truth) # NaN
    /\ GtIsList => \A i \in 1..(NumDelimiters(ground_truth) + 1) :
                       ParseFloat(split_string(ground_truth)[i]) # NaN

\* C10: a ground truth free of NaN is equivalent to itself, on every branch.
C10_Reflexive ==
    Returned /\ model_answer = ground_truth /\ NoNaN =>
        pc = "return" /\ result = TRUE

\* C10 witness: a list with a numeric element scored against itself.
C10_Witness ==
    /\ pc = "return"
    /\ model_answer = ground_truth
    /\ GtIsList
    /\ \E i \in 1..(NumDelimiters(ground_truth) + 1) :
           ParseFloat(split_string(ground_truth)[i]).kind = "fin"
    /\ result = TRUE

----------------------------------------------------------------------------
\* Property of normalize_str (specification SpecNormalize)

\* C9: normalize_str is idempotent, with and without punctuation removal:
\* normalizing what it returned gives the same string back.
C9_Idempotent ==
    pc = "return" => normalize_str(normalized, remove_punct) = normalized

\* C9 witness: a call that removed white space and changed the string.
C9_Witness ==
    /\ pc = "return"
    /\ normalized # input_str
    /\ normalized # <<>>
    /\ \E i \in 1..Len(input_str) : input_str[i] \in Whitespace

----------------------------------------------------------------------------
\* Property of find_missing_level2 (specification SpecAudit)

Range(f) == {f[i] : i \in DOMAIN f}

\* The level find_missing_level2 reads from a metadata record, as text.
IsLevel2(obj) ==
    LET v == DictGet(obj.Level, DictGet(obj.level, JsonNull))
    IN  v # JsonNull /\ Strip(PyStr(v)) = <<"2">>

\* The identifiers at level 2 in the metadata, and those with a report row.
MetadataLevel2Ids ==
    { Strip(jsonl_lines[i].obj.task_id) :
        i \in { j \in 1..Len(jsonl_lines) :
                  jsonl_lines[j].t = "obj" /\ IsLevel2(jsonl_lines[j].obj) } }
ReportIds == { Strip(csv_rows[i].task_id) : i \in 1..Len(csv_rows) }

\* C8: the audit returns exactly the identifiers at level 2 in the metadata
\* that have no row in the report.
C8_MissingExactly ==
    pc = "return" => Range(missing) = MetadataLevel2Ids \ ReportIds

====
